---- MODULE Spec2Model ----
(***************************************************************************)
(* Punycode (RFC 3492) label encoder and decoder of beached/punycoder,     *)
(* modelled from src/src/puny_coder.cpp.                                   *)
(*                                                                         *)
(* Strings are sequences of code points (naturals).  The functions of the  *)
(* library are operators; a call is one action of the state machine, which *)
(* records the argument and the value returned or the exception thrown.    *)
(*                                                                         *)
(* uint32_t and size_t values that the code can make wrap around are kept  *)
(* as little-endian sequences of 16-bit limbs (2 limbs for uint32_t, 4 for *)
(* a 64-bit size_t), because the arithmetic of the model checker is signed *)
(* 32-bit.  Every other integer stays below 2^31 and is a plain number.    *)
(***************************************************************************)
EXTENDS Integers, Sequences, FiniteSets, TLC

VARIABLES input, calls

vars == <<input, calls>>

(***************************************************************************)
(* namespace constants                                                     *)
(***************************************************************************)
BASE == 36
TMIN == 1
TMAX == 26
SKEW == 38
DAMP == 700
INITIAL_BIAS == 72
INITIAL_N == 128
PREFIX == <<120, 110, 45, 45>>
DELIMITER == 45

(***************************************************************************)
(* Fixed-width unsigned integers                                           *)
(***************************************************************************)
LimbBase == 65536
U32Limbs == 2
SizeLimbs == 4

\* the value x (0 <= x < 2^31) as an unsigned integer of nl limbs
ToWord(x, nl) ==
    [k \in 1..nl |-> IF k = 1 THEN x % LimbBase
                     ELSE IF k = 2 THEN x \div LimbBase
                     ELSE 0]

\* TRUE when the word is below 2^31, so that it is a plain number
IsSmall(a) ==
    /\ \A k \in 3..Len(a) : a[k] = 0
    /\ Len(a) >= 2 => a[2] < 32768

\* the plain number of a word below 2^31
ToNat(a) == a[1] + (IF Len(a) >= 2 THEN a[2] * LimbBase ELSE 0)

\* conversion between unsigned types: truncation or zero extension
Resize(a, nl) ==
    [k \in 1..nl |-> IF k <= Len(a) THEN a[k] ELSE 0]

IsZero(a) == \A k \in 1..Len(a) : a[k] = 0

RECURSIVE AddCarry(_, _, _, _)
AddCarry(a, b, k, c) ==
    IF k > Len(a) THEN <<>>
    ELSE LET s == a[k] + b[k] + c
         IN  <<s % LimbBase>> \o AddCarry(a, b, k + 1, s \div LimbBase)

\* a + b modulo 2^(16 * Len(a))
WAdd(a, b) == AddCarry(a, b, 1, 0)

RECURSIVE SubBorrow(_, _, _, _)
SubBorrow(a, b, k, c) ==
    IF k > Len(a) THEN <<>>
    ELSE LET s == a[k] - b[k] - c
         IN  IF s < 0 THEN <<s + LimbBase>> \o SubBorrow(a, b, k + 1, 1)
             ELSE <<s>> \o SubBorrow(a, b, k + 1, 0)

\* a - b modulo 2^(16 * Len(a))
WSub(a, b) == SubBorrow(a, b, 1, 0)

RECURSIVE MulCarry(_, _, _, _)
MulCarry(a, s, k, c) ==
    IF k > Len(a) THEN <<>>
    ELSE LET p == a[k] * s + c
         IN  <<p % LimbBase>> \o MulCarry(a, s, k + 1, p \div LimbBase)

\* a * s modulo 2^(16 * Len(a)), for a plain number s < 2^15
WMul(a, s) == MulCarry(a, s, 1, 0)

RECURSIVE DivStep(_, _, _, _)
DivStep(a, s, k, r) ==
    IF k = 0 THEN [q |-> <<>>, r |-> r]
    ELSE LET cur == r * LimbBase + a[k]
             low == DivStep(a, s, k - 1, cur % s)
         IN  [q |-> low.q \o <<cur \div s>>, r |-> low.r]

\* quotient (a word) and remainder (a number) of a by a plain number s < 2^15
WDivMod(a, s) == DivStep(a, s, Len(a), 0)

WDiv(a, s) == WDivMod(a, s).q

WMod(a, s) == WDivMod(a, s).r

RECURSIVE LessFrom(_, _, _)
LessFrom(a, b, k) ==
    IF k = 0 THEN FALSE
    ELSE IF a[k] # b[k] THEN a[k] < b[k]
    ELSE LessFrom(a, b, k - 1)

\* a < b for two words of the same width
WLess(a, b) == LessFrom(a, b, Len(a))

\* a < s for a plain number s
WLessNat(a, s) == WLess(a, ToWord(s, Len(a)))

\* a > s for a plain number s
WGreaterNat(a, s) == WLess(ToWord(s, Len(a)), a)

(***************************************************************************)
(* Helpers of the codec                                                    *)
(***************************************************************************)
\* variant of to_lower that clears bit 0x20, cp & ~32 (sensitivity of C3)
to_upper(cp) == IF (cp \div 32) % 2 = 1 THEN cp - 32 ELSE cp

\* cp | 32
to_lower(cp) == IF (cp \div 32) % 2 = 1 THEN cp ELSE cp + 32

RECURSIVE adapt_loop(_, _)
adapt_loop(delta, k) ==
    LET s == BASE - TMIN
        t == (s * TMAX) \div 2
    IN  IF WGreaterNat(delta, t) THEN adapt_loop(WDiv(delta, s), k + BASE)
        ELSE LET d == ToNat(delta)
                 a == (BASE - TMIN + 1) * d
                 b == d + SKEW
             IN  k + (a \div b)

\* delta is a word of the width of the caller's type T
adapt(delta, n_points, is_first) ==
    LET scaled == WDiv(delta, IF is_first THEN DAMP ELSE 2)
        grown == WAdd(scaled, WDiv(scaled, n_points))
    IN  adapt_loop(grown, 0)

calculate_threshold(k, bias) ==
    IF k <= bias + TMIN THEN TMIN
    ELSE IF k >= bias + TMAX THEN TMAX
    ELSE k - bias

\* variant of encode_digit with the digits 26..35 one character lower
\* (sensitivity of C16)
encode_digit_low(d) == IF d < 26 THEN d + 97 ELSE d + 21

encode_digit(d) == IF d < 26 THEN d + 97 ELSE d + 22

RECURSIVE encode_int_loop(_, _, _)
encode_int_loop(bias, k, q) ==
    LET t == calculate_threshold(k, bias)
    IN  IF WLessNat(q, t) THEN <<encode_digit(ToNat(q))>>
        ELSE LET qt == WDivMod(WSub(q, ToWord(t, Len(q))), BASE - t)
             IN  <<encode_digit(t + qt.r)>> \o encode_int_loop(bias, k + BASE, qt.q)

\* delta is a uint32_t word
encode_int(bias, delta) == encode_int_loop(bias, BASE, delta)

(***************************************************************************)
(* Results of a call: the value returned, or the std::runtime_error thrown *)
(*   "The size of the part must be between 1 and 63 inclusive" LengthError *)
(*   "Unexpected character provided"                      InvalidCharacter *)
(*   "delta overflow"                                             Overflow *)
(* "Undefined" stands for a run that reaches undefined behaviour.          *)
(***************************************************************************)
Return(v) == [kind |-> "ok", value |-> v]

Throw(e) == [kind |-> e, value |-> <<>>]

ErrorKinds == {"LengthError", "InvalidCharacter", "Overflow", "Undefined"}

(***************************************************************************)
(* Encoder                                                                 *)
(***************************************************************************)
RECURSIVE sort_desc(_)
sort_desc(S) ==
    IF S = {} THEN <<>>
    ELSE LET mx == CHOOSE x \in S : \A y \in S : y <= x
         IN  <<mx>> \o sort_desc(S \ {mx})

\* variant of sort_uniq without std::unique (sensitivity of C17)
RECURSIVE sort_only(_)
sort_only(values) ==
    IF values = <<>> THEN <<>>
    ELSE LET at == CHOOSE i \in 1..Len(values) :
                       \A j \in 1..Len(values) : values[j] <= values[i]
         IN  <<values[at]>>
                 \o sort_only(SubSeq(values, 1, at - 1) \o SubSeq(values, at + 1, Len(values)))

\* copy, std::sort with std::greater, std::unique, erase
sort_uniq(values) == sort_desc({values[k] : k \in 1..Len(values)})

\* one iteration of the scan of encode_part over the code point c
encode_scan_step(st, c, n, b) ==
    IF st.thrown THEN st
    ELSE IF c < n
    THEN LET d1 == WAdd(st.delta, ToWord(1, U32Limbs))
         IN  IF IsZero(d1) THEN [st EXCEPT !.delta = d1, !.thrown = TRUE]
             ELSE [st EXCEPT !.delta = d1]
    ELSE IF c = n
    THEN [st EXCEPT !.output = st.output \o encode_int(st.bias, st.delta),
                    !.bias = adapt(st.delta, st.h + 1, b = st.h),
                    !.delta = ToWord(0, U32Limbs),
                    !.h = st.h + 1,
                    !.groups = st.groups + 1]
    ELSE st

\* the scan over input[lo..hi], left to right
RECURSIVE encode_scan(_, _, _, _, _, _)
encode_scan(inp, lo, hi, st, n, b) ==
    IF lo > hi THEN st
    ELSE IF lo = hi THEN encode_scan_step(st, inp[lo], n, b)
    ELSE LET mid == (lo + hi) \div 2
             left == encode_scan(inp, lo, mid, st, n, b)
         IN  IF left.thrown THEN left
             ELSE encode_scan(inp, mid + 1, hi, left, n, b)

\* (m - n) * (h + 1) added to delta, in size_t
encode_advance_wide(delta, m, n, h) ==
    LET mn == WSub(ToWord(m, U32Limbs), ToWord(n, U32Limbs))
    IN  WAdd(Resize(delta, SizeLimbs), WMul(Resize(mn, SizeLimbs), h + 1))

\* delta += (m - n) * (h + 1): the sum is stored in a uint32_t
encode_advance(delta, m, n, h) ==
    Resize(encode_advance_wide(delta, m, n, h), U32Limbs)

\* the main loop of encode_part; st.n is the value of n at the loop head.
\* Four fields of st are not variables of the code, they record its run:
\* wrapped, that a sum or an increment of delta outside the scan did not fit
\* the uint32_t; heads, the values of h and n and the size of non_basic at
\* each test of h < len; taken, each m with the n it met; groups, the number
\* of calls of encode_int
RECURSIVE encode_loop(_, _, _)
encode_loop(inp, b, st) ==
    LET heads == Append(st.heads, [h |-> st.h, n |-> st.n, left |-> Len(st.non_basic)])
    IN  IF ~(st.h < Len(inp))
        THEN [kind |-> "ok", value |-> PREFIX \o st.output, wrapped |-> st.wrapped,
              heads |-> heads, taken |-> st.taken, groups |-> st.groups]
        ELSE IF st.non_basic = <<>>
        THEN [kind |-> "Undefined", value |-> <<>>, wrapped |-> st.wrapped,
              heads |-> heads, taken |-> st.taken, groups |-> st.groups]
        ELSE LET m == st.non_basic[Len(st.non_basic)]
                 rest == SubSeq(st.non_basic, 1, Len(st.non_basic) - 1)
                 taken == Append(st.taken, [m |-> m, n |-> st.n])
                 wide == encode_advance_wide(st.delta, m, st.n, st.h)
                 s0 == [output |-> st.output, bias |-> st.bias, h |-> st.h,
                        delta |-> encode_advance(st.delta, m, st.n, st.h),
                        thrown |-> FALSE, groups |-> st.groups]
                 s1 == encode_scan(inp, 1, Len(inp), s0, m, b)
                 d1 == WAdd(s1.delta, ToWord(1, U32Limbs))
             IN  IF s1.thrown
                 THEN [kind |-> "Overflow", value |-> <<>>, wrapped |-> st.wrapped,
                       heads |-> heads, taken |-> taken, groups |-> s1.groups]
                 ELSE encode_loop(inp, b,
                          [output |-> s1.output, bias |-> s1.bias, h |-> s1.h,
                           delta |-> d1, n |-> m + 1, non_basic |-> rest,
                           wrapped |-> \/ st.wrapped
                                       \/ wide # Resize(s0.delta, SizeLimbs)
                                       \/ IsZero(d1),
                           heads |-> heads, taken |-> taken, groups |-> s1.groups])

\* encode_part, with the record of its run beside its outcome
encode_run(inp) ==
    LET basic == SelectSeq(inp, LAMBDA c : c < 128)
        output == [k \in 1..Len(basic) |-> to_lower(basic[k])]
        non_basic == SelectSeq(inp, LAMBDA c : ~(c < 128))
        b == Len(output)
    IN  IF non_basic = <<>>
        THEN [kind |-> "ok", value |-> output, wrapped |-> FALSE,
              heads |-> <<>>, taken |-> <<>>, groups |-> 0]
        ELSE encode_loop(inp, b,
                 [output |-> IF output # <<>> THEN Append(output, DELIMITER) ELSE output,
                  bias |-> INITIAL_BIAS, h |-> b,
                  delta |-> ToWord(0, U32Limbs),
                  n |-> INITIAL_N, non_basic |-> sort_uniq(non_basic),
                  wrapped |-> FALSE, heads |-> <<>>, taken |-> <<>>, groups |-> 0])

encode_part(inp) ==
    LET r == encode_run(inp)
    IN  IF r.kind = "ok" THEN Return(r.value) ELSE Throw(r.kind)

(***************************************************************************)
(* Decoder                                                                 *)
(***************************************************************************)
\* daw::parser::starts_with with the predicate to_lower( c1 ) == to_lower( c2 )
begins_with_prefix(inp) ==
    /\ Len(inp) >= Len(PREFIX)
    /\ \A k \in 1..Len(PREFIX) : to_lower(inp[k]) = to_lower(PREFIX[k])

in_range(value, lo, hi) == lo <= value /\ value <= hi

\* the value decode_to_value returns when it throws
NoValue == 0 - 1

\* variant of decode_to_value that takes a character that is no digit for 'a'
\* (sensitivity of C9)
decode_to_value_lenient(value) ==
    IF in_range(value, 97, 122) THEN value - 97
    ELSE IF in_range(value, 65, 90) THEN value - 65
    ELSE IF in_range(value, 48, 57) THEN (value - 48) + 26
    ELSE 0

\* variant of decode_to_value that knows no uppercase digits (sensitivity of
\* C13)
decode_to_value_cased(value) ==
    IF in_range(value, 97, 122) THEN value - 97
    ELSE IF in_range(value, 48, 57) THEN (value - 48) + 26
    ELSE NoValue

decode_to_value(value) ==
    IF in_range(value, 97, 122) THEN value - 97
    ELSE IF in_range(value, 65, 90) THEN value - 65
    ELSE IF in_range(value, 48, 57) THEN (value - 48) + 26
    ELSE NoValue

\* variant of until_last_of: the range before the first occurrence of value
\* (sensitivity of C1)
until_first_of(inp, value) ==
    LET at == {k \in 1..Len(inp) : inp[k] = value}
    IN  IF at = {} THEN [found |-> FALSE, size |-> Len(inp)]
        ELSE [found |-> TRUE, size |-> (CHOOSE k \in at : \A j \in at : k <= j) - 1]

\* daw::parser::until_last_of: the range before the last occurrence of value
until_last_of(inp, value) ==
    LET at == {k \in 1..Len(inp) : inp[k] = value}
    IN  IF at = {} THEN [found |-> FALSE, size |-> Len(inp)]
        ELSE [found |-> TRUE, size |-> (CHOOSE k \in at : \A j \in at : j <= k) - 1]

\* a char32_t as a code point: values from 2^31 on are shown as value - 2^32
char32(n) ==
    IF IsSmall(n) THEN ToNat(n) ELSE (n[2] - LimbBase) * LimbBase + n[1]

\* variant of char_at that finds an 'a' after the last element (sensitivity
\* of C18)
char_at_padded(inp, b) == IF b < Len(inp) THEN inp[b + 1] ELSE 97

\* input[b] of a std::u32string: the element, or the terminator at b = size
char_at(inp, b) == IF b < Len(inp) THEN inp[b + 1] ELSE 0

\* variant of insert: output.push_back( c ) (sensitivity of C2)
push_back(output, i, c) == Append(output, c)

\* output.insert( i, 1, c )
insert(output, i, c) ==
    SubSeq(output, 1, i) \o <<c>> \o SubSeq(output, i + 1, Len(output))

\* a word of one limb more than a size_t, to tell a sum or a product that
\* does not fit
Widen(a) == Resize(a, SizeLimbs + 1)

\* the loop over k of decode_part: one generalized variable-length integer;
\* ds holds b, i (a size_t word), w (a size_t word) and k.  ds.wrapped is
\* not a variable of the code: it records that i += d * w or w *= BASE - t
\* did not fit the size_t
RECURSIVE decode_int(_, _, _)
decode_int(inp, bias, ds) ==
    LET d == decode_to_value(char_at(inp, ds.b))
        t == calculate_threshold(ds.k, bias)
    IN  IF d = NoValue
        THEN [thrown |-> TRUE, b |-> ds.b + 1, i |-> ds.i, wrapped |-> ds.wrapped]
        ELSE LET i1 == WAdd(ds.i, WMul(ds.w, d))
                 w1 == WMul(ds.w, BASE - t)
                 i_fits == WAdd(Widen(ds.i), WMul(Widen(ds.w), d)) = Widen(i1)
                 w_fits == WMul(Widen(ds.w), BASE - t) = Widen(w1)
             IN  IF d < t
                 THEN [thrown |-> FALSE, b |-> ds.b + 1, i |-> i1,
                       wrapped |-> ds.wrapped \/ ~i_fits]
                 ELSE decode_int(inp, bias,
                          [b |-> ds.b + 1, i |-> i1, w |-> w1, k |-> ds.k + BASE,
                           wrapped |-> ds.wrapped \/ ~i_fits \/ ~w_fits])

\* the main loop of decode_part; st holds b, i (a size_t word), n (a
\* uint32_t word), bias and output at the loop head.  Two fields of st are
\* not variables of the code, they record its run: wrapped, that a sum or a
\* product did not fit its type; steps, for each insertion the n inserted
\* (a uint32_t word), the position and the length of output before it
RECURSIVE decode_loop(_, _)
decode_loop(inp, st) ==
    IF ~(st.b < Len(inp))
    THEN [kind |-> "ok", value |-> st.output, wrapped |-> st.wrapped,
          steps |-> st.steps, b |-> st.b]
    ELSE LET original_i == st.i
             r == decode_int(inp, st.bias,
                      [b |-> st.b, i |-> st.i, w |-> ToWord(1, SizeLimbs), k |-> BASE,
                       wrapped |-> st.wrapped])
             x == Len(st.output) + 1
             n1 == Resize(WAdd(Resize(st.n, SizeLimbs), WDiv(r.i, x)), U32Limbs)
             n_fits == WAdd(Widen(st.n), Widen(WDiv(r.i, x))) = Widen(n1)
             pos == WMod(r.i, x)
         IN  IF r.thrown
             THEN [kind |-> "InvalidCharacter", value |-> <<>>, wrapped |-> r.wrapped,
                   steps |-> st.steps, b |-> r.b]
             ELSE decode_loop(inp,
                      [b |-> r.b, i |-> ToWord(pos + 1, SizeLimbs), n |-> n1,
                       bias |-> adapt(WSub(r.i, original_i), x, IsZero(original_i)),
                       output |-> insert(st.output, pos, char32(n1)),
                       wrapped |-> r.wrapped \/ ~n_fits,
                       steps |-> Append(st.steps,
                                    [n |-> n1, pos |-> pos, len |-> Len(st.output)])])

\* variant of bad_size: the size of the part after the marker (sensitivity
\* of C8)
bad_size_stripped(u8input) ==
    LET size == IF begins_with_prefix(u8input) THEN Len(u8input) - Len(PREFIX)
                ELSE Len(u8input)
    IN  size < 1 \/ size > 63

\* the test on the size of the part
bad_size(u8input) == Len(u8input) < 1 \/ Len(u8input) > 63

\* decode_part, with the record of its run beside its outcome; b is the
\* number of elements of input read, the terminator included
decode_run(u8input) ==
    IF bad_size(u8input)
    THEN [kind |-> "LengthError", value |-> <<>>, wrapped |-> FALSE,
          steps |-> <<>>, b |-> 0]
    ELSE IF ~begins_with_prefix(u8input)
    THEN [kind |-> "ok", value |-> u8input, wrapped |-> FALSE, steps |-> <<>>, b |-> 0]
    ELSE LET inp == SubSeq(u8input, Len(PREFIX) + 1, Len(u8input))
             basic_rng == until_last_of(inp, DELIMITER)
         IN  decode_loop(inp,
                 [b |-> IF basic_rng.found THEN 1 + basic_rng.size ELSE 0,
                  i |-> ToWord(0, SizeLimbs), n |-> ToWord(INITIAL_N, U32Limbs),
                  bias |-> INITIAL_BIAS,
                  output |-> IF basic_rng.found THEN SubSeq(inp, 1, basic_rng.size)
                             ELSE <<>>,
                  wrapped |-> FALSE, steps |-> <<>>])

decode_part(u8input) ==
    LET r == decode_run(u8input)
    IN  IF r.kind = "ok" THEN Return(r.value) ELSE Throw(r.kind)

(***************************************************************************)
(* Whole names                                                             *)
(***************************************************************************)
\* find_first_of: the 0-based position of the first delemiter, or npos
npos == 0 - 1

find_first_of(inp, delemiter) ==
    LET at == {k \in 1..Len(inp) : inp[k] = delemiter}
    IN  IF at = {} THEN npos ELSE (CHOOSE k \in at : \A j \in at : k <= j) - 1

RECURSIVE split(_, _)
split(inp, delemiter) ==
    LET pos == find_first_of(inp, delemiter)
    IN  IF inp # <<>> /\ pos # npos
        THEN <<SubSeq(inp, 1, pos)>> \o split(SubSeq(inp, pos + 2, Len(inp)), delemiter)
        ELSE <<inp>>

\* variant of write_parts that returns the stream when a conversion throws
\* (sensitivity of C14)
RECURSIVE write_parts_partial(_, _, _)
write_parts_partial(converted, k, ss) ==
    IF k > Len(converted) THEN Return(ss)
    ELSE LET sep == IF k = 1 THEN <<>> ELSE <<46>>
         IN  IF converted[k].kind # "ok" THEN Return(ss)
             ELSE write_parts_partial(converted, k + 1, ss \o sep \o converted[k].value)

\* the loop over the parts: ss is the stream, converted[k] the outcome of
\* the conversion of part k; a throw abandons the stream
RECURSIVE write_parts(_, _, _)
write_parts(converted, k, ss) ==
    IF k > Len(converted) THEN Return(ss)
    ELSE LET sep == IF k = 1 THEN <<>> ELSE <<46>>
         IN  IF converted[k].kind # "ok" THEN Throw(converted[k].kind)
             ELSE write_parts(converted, k + 1, ss \o sep \o converted[k].value)

to_puny_code(inp) ==
    LET parts == split(inp, 46)
    IN  write_parts([k \in 1..Len(parts) |->
                        IF parts[k] # <<>> THEN encode_part(parts[k])
                        ELSE Return(<<>>)], 1, <<>>)

from_puny_code(inp) ==
    LET parts == split(inp, 46)
    IN  write_parts([k \in 1..Len(parts) |->
                        IF parts[k] # <<>> THEN decode_part(parts[k])
                        ELSE Return(<<>>)], 1, <<>>)

(***************************************************************************)
(* Inputs                                                                  *)
(***************************************************************************)
MaxLen == 3
MaxParts == 2
MaxDigits == 12
MaxCalls == 3
OverflowLen == 3855
MaxCodePoint == 1114111

Seqs(S, n) == UNION {[1..k -> S] : k \in 0..n}

Repeat(c, n) == [k \in 1..n |-> c]

\* '-', 'A', '_', 'a', U+0080, U+00FC, U+10FFFF
\* '-', 'A', '_', 'a', U+0080, U+00FC
LabelChars == {45, 65, 95, 97, 128, 252}

Labels == Seqs(LabelChars, MaxLen)

\* "xn--", "XN--", "xn" CR CR, "xn-a"
Heads == {PREFIX, <<88, 78, 45, 45>>, <<120, 110, 13, 13>>, <<120, 110, 45, 97>>}

\* '!', '-', '9', 'A', 'a'
TailChars == {33, 45, 57, 65, 97}

AceLabels == {h \o t : h \in Heads, t \in Seqs(TailChars, MaxLen)}

\* '.', 'a', U+00FC
NameChars == {14, 46, 97, 252}

Names == Seqs(NameChars, MaxLen + 1)

\* "xn--8x902716a" carries the integer 2^32 - 82
WrapLabel == PREFIX \o <<56, 120, 57, 48, 50, 55, 49, 54, 97>>

\* "xn--a975540107f": the integers 0 and 2^33 - 127; the second makes n wrap
\* from 128 to 65
DescendLabel == PREFIX \o <<97, 57, 55, 53, 53, 52, 48, 49, 48, 55, 102>>

\* "", "a", "xn--tda", "xn--", "xn--!", WrapLabel, 'a' 64 times
Parts ==
    {<<>>, <<97>>, PREFIX \o <<116, 100, 97>>, PREFIX, PREFIX \o <<33>>, WrapLabel,
     Repeat(97, 64)}

RECURSIVE Join(_)
Join(ps) == IF Len(ps) = 1 THEN ps[1] ELSE ps[1] \o <<46>> \o Join(Tail(ps))

AceNames == {Join(ps) : ps \in UNION {[1..k -> Parts] : k \in 1..MaxParts}}

\* "bücher", "xn--bcher-kva", "bücher.com"
Fixtures ==
    { <<98, 252, 99, 104, 101, 114>>,
      PREFIX \o <<98, 99, 104, 101, 114, 45, 107, 118, 97>>,
      <<98, 252, 99, 104, 101, 114, 46, 99, 111, 109>> }

\* labels with the largest code point, and marked labels with the digit 'v'
\* and with U+00FC
OddLabels ==
    { <<MaxCodePoint>>, <<97, MaxCodePoint>>, <<MaxCodePoint, 65, 128>>,
      PREFIX \o <<118>>, PREFIX \o <<97, 118>>, PREFIX \o <<57, 118>>,
      PREFIX \o <<252>>, PREFIX \o <<252, 45, 97>>, PREFIX \o <<97, 252>>,
      <<120, 110, 13, 13, 252>> }

\* labels at the length limit of decode_part, and labels of many code points
LongLabels ==
    {Repeat(97, k) : k \in {63, 64}}
        \cup {PREFIX \o Repeat(97, k) : k \in {59, 60, 63, 64}}
        \cup {Repeat(252, k) : k \in {20, 32}}
        \cup {Repeat(97, k) \o <<MaxCodePoint>> : k \in {OverflowLen - 1, OverflowLen}}
        \cup {Repeat(97, 4096) \o <<1048448>>}

\* names with a label whose encoding overflows
OverflowNames ==
    LET T == Repeat(97, 4096) \o <<1048448>>
    IN  {<<252, 46>> \o T, T \o <<46, 252>>}

\* a marker and one long integer: '9' k times and 'b'
DeepLabels == {PREFIX \o Repeat(57, k) \o <<98>> : k \in 4..MaxDigits}

Inputs == Labels \cup AceLabels \cup Names \cup AceNames \cup Fixtures
              \cup LongLabels \cup DeepLabels \cup OverflowNames \cup {DescendLabel}
              \cup OddLabels

(***************************************************************************)
(* The calls.  A call takes the input, or the value the call before it     *)
(* returned when that is text: encode_part and decode_part follow each     *)
(* other, and so do to_puny_code and from_puny_code.                       *)
(***************************************************************************)
IsText(v) == {k \in 1..Len(v) : v[k] < 0 \/ v[k] > MaxCodePoint} = {}

Last == calls[Len(calls)]

CanCall(after) ==
    \/ calls = <<>>
    \/ /\ calls # <<>>
       /\ Len(calls) < MaxCalls
       /\ Last.op = after
       /\ Last.result.kind = "ok"
       /\ IsText(Last.result.value)

Arg == IF calls = <<>> THEN input ELSE Last.result.value

Call(name, res) ==
    /\ calls' = Append(calls, [op |-> name, arg |-> Arg, result |-> res])
    /\ UNCHANGED input

Init ==
    /\ input \in Inputs
    /\ calls = <<>>

EncodePart ==
    /\ CanCall("decode_part")
    /\ Call("encode_part", encode_part(Arg))

DecodePart ==
    /\ CanCall("encode_part")
    /\ Call("decode_part", decode_part(Arg))

ToPunyCode ==
    /\ CanCall("from_puny_code")
    /\ Call("to_puny_code", to_puny_code(Arg))

FromPunyCode ==
    /\ CanCall("to_puny_code")
    /\ Call("from_puny_code", from_puny_code(Arg))

Next ==
    \/ EncodePart
    \/ DecodePart
    \/ ToPunyCode
    \/ FromPunyCode

Spec == Init /\ [][Next]_vars

(***************************************************************************)
(* Vocabulary of the properties                                            *)
(***************************************************************************)
\* the marker "xn--" in any case of its letters
IsMarked(s) ==
    /\ Len(s) >= 4
    /\ s[1] \in {120, 88}
    /\ s[2] \in {110, 78}
    /\ s[3] = 45
    /\ s[4] = 45

StartsWith(s, p) ==
    /\ Len(s) >= Len(p)
    /\ \A k \in 1..Len(p) : s[k] = p[k]

HasExtended(s) == \E k \in 1..Len(s) : s[k] >= 128

\* bit 0x20 of c is set
HasBit32(c) == (c \div 32) % 2 = 1

\* a lowercase letter, a digit or a hyphen
IsLowerLDH(c) == c \in (97..122) \cup (48..57) \cup {45}

\* a letter, a digit or a hyphen
IsLDH(c) == IsLowerLDH(c) \/ c \in 65..90

\* the latest call.  Every call is the latest call of a reachable state, so
\* what holds of the latest call in every state holds of every call
Latest == IF calls = <<>> THEN {} ELSE {Len(calls)}

\* call k and the call after it are name1 and name2
Pair(k, name1, name2) ==
    /\ k + 1 <= Len(calls)
    /\ calls[k].op = name1
    /\ calls[k + 1].op = name2

(***************************************************************************)
(* C1.  Round trip as the specification states it: for every label L whose *)
(* basic code points are lowercase ASCII, decode_part(encode_part(L)) = L. *)
(* Stated for labels of 1..63 code points whose basic code points are      *)
(* lowercase letters, digits and hyphens.  It does not hold: "xn--" has no *)
(* extended code point, is returned as it is and decodes to nothing.       *)
(***************************************************************************)
C1_RoundTripAsStated ==
    \A k \in 1..Len(calls) :
        LET L == calls[k].arg
        IN  ( /\ Pair(k, "encode_part", "decode_part")
              /\ Len(L) \in 1..63
              /\ \A j \in 1..Len(L) : L[j] < 128 => IsLowerLDH(L[j]) )
            => calls[k + 1].result = Return(L)

\* the labels the round trip of C1 covers
RoundTrips(L, A) ==
    /\ Len(L) >= 1
    /\ \A j \in 1..Len(L) : L[j] < 128 => HasBit32(L[j])
    /\ HasExtended(L) \/ ~StartsWith(L, <<120, 110, 45, 45>>)
    /\ Len(A) <= 63

(***************************************************************************)
(* C1 (amended).  Round trip: for every label L of at least one code point *)
(* whose basic code points all have bit 0x20 set (c | 32 = c), that has a  *)
(* code point >= 128 or does not begin with "xn--", and whose encoding A   *)
(* has at most 63 characters, decode_part(encode_part(L)) = L.             *)
(***************************************************************************)
C1_RoundTrip ==
    \A k \in 1..Len(calls) :
        ( /\ Pair(k, "encode_part", "decode_part")
          /\ RoundTrips(calls[k].arg, calls[k].result.value) )
        => calls[k + 1].result = Return(calls[k].arg)

\* a label with a hyphen, a letter and two extended code points, out of
\* order, went through encode_part and decode_part
C1_Witness ==
    \E k \in 1..Len(calls) :
        /\ Pair(k, "encode_part", "decode_part")
        /\ RoundTrips(calls[k].arg, calls[k].result.value)
        /\ calls[k].arg = <<252, 45, 128>>
        /\ calls[k + 1].result = Return(calls[k].arg)

(***************************************************************************)
(* C2.  Reverse round trip as the specification states it: for every ACE   *)
(* string A that encode_part returned, encode_part(decode_part(A))         *)
(* succeeds and equals A.  Stated for A of 1..63 characters.  It does not  *)
(* hold: encode_part returns "xn--!" as it is, and decode_part rejects it. *)
(***************************************************************************)
C2_ReverseAsStated ==
    \A k \in 1..Len(calls) :
        LET A == calls[k].result.value
        IN  ( /\ calls[k].op = "encode_part"
              /\ calls[k].result.kind = "ok"
              /\ Len(A) \in 1..63 )
            => /\ Pair(k, "encode_part", "decode_part")
                    => calls[k + 1].result.kind = "ok"
               /\ Pair(k + 1, "decode_part", "encode_part")
                    => calls[k + 2].result = Return(A)

\* the ACE strings the reverse round trip of C2 covers
ReverseTrips(L, A) ==
    /\ Len(A) \in 1..63
    /\ HasExtended(L) \/ ~StartsWith(A, <<120, 110, 45, 45>>)

(***************************************************************************)
(* C2 (amended).  Reverse round trip: for every ACE string A of 1..63      *)
(* characters that encode_part returned for a label with a code point      *)
(* >= 128, or that does not begin with "xn--", decode_part(A) succeeds and *)
(* encode_part(decode_part(A)) succeeds and equals A.                      *)
(***************************************************************************)
C2_Reverse ==
    \A k \in 1..Len(calls) :
        LET A == calls[k].result.value
        IN  ( /\ calls[k].op = "encode_part"
              /\ calls[k].result.kind = "ok"
              /\ ReverseTrips(calls[k].arg, A) )
            => /\ Pair(k, "encode_part", "decode_part")
                    => /\ calls[k + 1].result.kind = "ok"
                       /\ IsText(calls[k + 1].result.value)
               /\ Pair(k + 1, "decode_part", "encode_part")
                    => calls[k + 2].result = Return(A)

\* the ACE string of a label with an uppercase letter and two extended code
\* points, out of order, went through decode_part and encode_part
C2_Witness ==
    /\ Len(calls) >= 3
    /\ Pair(1, "encode_part", "decode_part")
    /\ Pair(2, "decode_part", "encode_part")
    /\ calls[1].arg = <<252, 65, 128>>
    /\ ReverseTrips(calls[1].arg, calls[1].result.value)
    /\ calls[3].result = Return(calls[1].result.value)

(***************************************************************************)
(* C3.  ASCII idempotence as the specification states it: for every label  *)
(* L with no code point >= 128, encode_part(L) = L.  Stated for labels of  *)
(* letters, digits and hyphens.  It does not hold: "A" comes back as "a".  *)
(***************************************************************************)
C3_IdempotenceAsStated ==
    \A k \in 1..Len(calls) :
        LET L == calls[k].arg
        IN  ( /\ calls[k].op = "encode_part"
              /\ \A j \in 1..Len(L) : IsLDH(L[j]) )
            => calls[k].result = Return(L)

(***************************************************************************)
(* C3 (amended).  ASCII idempotence: for every label L with no code point  *)
(* >= 128 whose code points all have bit 0x20 set (c | 32 = c: lowercase   *)
(* letters, digits, '-'), encode_part(L) = L, with no marker added; the    *)
(* other labels without a code point >= 128 come back with as many code    *)
(* points and no marker in front of them.                                  *)
(***************************************************************************)
C3_Idempotence ==
    \A k \in 1..Len(calls) :
        LET L == calls[k].arg
        IN  ( /\ calls[k].op = "encode_part"
              /\ ~HasExtended(L) )
            => /\ calls[k].result.kind = "ok"
               /\ Len(calls[k].result.value) = Len(L)
               /\ (\A j \in 1..Len(L) : HasBit32(L[j]))
                    => calls[k].result = Return(L)

\* encode_part returned a label of hyphens and lowercase letters unchanged
C3_Witness ==
    \E k \in 1..Len(calls) :
        /\ calls[k].op = "encode_part"
        /\ calls[k].arg = <<97, 45, 97>>
        /\ calls[k].result = Return(<<97, 45, 97>>)

(***************************************************************************)
(* C4.  Decode pass-through: for every label L of 1..63 code points that   *)
(* does not begin with the marker "xn--" in any case of its letters,       *)
(* decode_part(L) returns the code points of L.  The code breaks it:       *)
(* to_lower makes a carriage return equal to '-', so "xn" CR CR is taken   *)
(* for the marker and stripped.                                            *)
(***************************************************************************)
C4_PassThrough ==
    \A k \in 1..Len(calls) :
        LET L == calls[k].arg
        IN  ( /\ calls[k].op = "decode_part"
              /\ Len(L) \in 1..63
              /\ ~IsMarked(L) )
            => calls[k].result = Return(L)

(***************************************************************************)
(* The reference algorithms of RFC 3492, sections 6.1 to 6.3, with numbers *)
(* of 32 bits (maxint = 2^32 - 1) held in words of four limbs so that an   *)
(* overflow shows as a nonzero high limb.  They are the yardstick of C5    *)
(* and C6 and use none of the operators that model the code's codec.       *)
(***************************************************************************)
Rfc_Fits(a) == a[3] = 0 /\ a[4] = 0

Rfc_Word(x) == <<x % 65536, x \div 65536, 0, 0>>

RECURSIVE Rfc_adapt_loop(_, _)
Rfc_adapt_loop(delta, k) ==
    IF WGreaterNat(delta, ((36 - 1) * 26) \div 2)
    THEN Rfc_adapt_loop(WDiv(delta, 36 - 1), k + 36)
    ELSE k + (((36 - 1 + 1) * ToNat(delta)) \div (ToNat(delta) + 38))

Rfc_adapt(delta, numpoints, firsttime) ==
    LET d1 == IF firsttime THEN WDiv(delta, 700) ELSE WDiv(delta, 2)
    IN  Rfc_adapt_loop(WAdd(d1, WDiv(d1, numpoints)), 0)

\* t(k) = k - bias clamped to tmin..tmax
Rfc_threshold(k, bias) ==
    IF k <= bias THEN 1 ELSE IF k >= bias + 26 THEN 26 ELSE k - bias

Rfc_encode_digit(d) == IF d < 26 THEN 97 + d ELSE 48 + (d - 26)

\* 36 stands for a code point that is no digit
Rfc_decode_digit(cp) ==
    IF cp \in 48..57 THEN cp - 22
    ELSE IF cp \in 65..90 THEN cp - 65
    ELSE IF cp \in 97..122 THEN cp - 97
    ELSE 36

\* the generalized variable-length integer of q (a plain number)
RECURSIVE Rfc_encode_int(_, _, _)
Rfc_encode_int(q, k, bias) ==
    LET t == Rfc_threshold(k, bias)
    IN  IF q < t THEN <<Rfc_encode_digit(q)>>
        ELSE <<Rfc_encode_digit(t + ((q - t) % (36 - t)))>>
                 \o Rfc_encode_int((q - t) \div (36 - t), k + 36, bias)

\* the pass over the input for the code point n, from position j
RECURSIVE Rfc_encode_pass(_, _, _, _, _)
Rfc_encode_pass(inp, j, n, b, st) ==
    IF j > Len(inp) \/ st.h >= Len(inp) THEN st
    ELSE IF inp[j] < n
    THEN Rfc_encode_pass(inp, j + 1, n, b, [st EXCEPT !.delta = st.delta + 1])
    ELSE IF inp[j] = n
    THEN Rfc_encode_pass(inp, j + 1, n, b,
             [out |-> st.out \o Rfc_encode_int(st.delta, 36, st.bias),
              bias |-> Rfc_adapt(Rfc_Word(st.delta), st.h + 1, st.h = b),
              delta |-> 0, h |-> st.h + 1])
    ELSE Rfc_encode_pass(inp, j + 1, n, b, st)

RECURSIVE Rfc_encode_main(_, _, _, _)
Rfc_encode_main(inp, n, b, st) ==
    IF st.h >= Len(inp) THEN st.out
    ELSE LET m == CHOOSE c \in {inp[j] : j \in 1..Len(inp)} :
                      c >= n /\ \A j \in 1..Len(inp) : inp[j] >= n => c <= inp[j]
             s1 == Rfc_encode_pass(inp, 1, m, b,
                       [st EXCEPT !.delta = st.delta + (m - n) * (st.h + 1)])
         IN  Rfc_encode_main(inp, m + 1, b, [s1 EXCEPT !.delta = s1.delta + 1])

\* section 6.3, for an input that does not overflow
Rfc_encode(inp) ==
    LET basic == SelectSeq(inp, LAMBDA c : c < 128)
    IN  Rfc_encode_main(inp, 128, Len(basic),
            [out |-> IF basic = <<>> THEN <<>> ELSE Append(basic, 45),
             bias |-> 72, delta |-> 0, h |-> Len(basic)])

\* one generalized variable-length integer, read from position at (0-based);
\* cut tells the failure of an input that ends within the integer
RECURSIVE Rfc_decode_int(_, _, _, _, _, _)
Rfc_decode_int(inp, at, i, w, k, bias) ==
    IF at >= Len(inp) THEN [ok |-> FALSE, cut |-> TRUE]
    ELSE LET digit == Rfc_decode_digit(inp[at + 1])
             t == Rfc_threshold(k, bias)
             i1 == WAdd(i, WMul(w, digit))
             w1 == WMul(w, 36 - t)
         IN  IF digit >= 36 THEN [ok |-> FALSE, cut |-> FALSE]
             ELSE IF ~Rfc_Fits(i1) THEN [ok |-> FALSE, cut |-> FALSE]
             ELSE IF digit < t THEN [ok |-> TRUE, at |-> at + 1, i |-> i1]
             ELSE IF ~Rfc_Fits(w1) THEN [ok |-> FALSE, cut |-> FALSE]
             ELSE Rfc_decode_int(inp, at + 1, i1, w1, k + 36, bias)

RECURSIVE Rfc_decode_main(_, _, _, _, _, _)
Rfc_decode_main(inp, at, i, n, bias, out) ==
    IF at >= Len(inp) THEN [ok |-> TRUE, value |-> out]
    ELSE LET r == Rfc_decode_int(inp, at, i, Rfc_Word(1), 36, bias)
             n1 == WAdd(n, WDiv(r.i, Len(out) + 1))
             pos == WMod(r.i, Len(out) + 1)
         IN  IF ~r.ok THEN r
             ELSE IF ~Rfc_Fits(n1) THEN [ok |-> FALSE, cut |-> FALSE]
             ELSE Rfc_decode_main(inp, r.at, Rfc_Word(pos + 1), n1,
                      Rfc_adapt(WSub(r.i, i), Len(out) + 1, IsZero(i)),
                      SubSeq(out, 1, pos)
                          \o <<IF n1[2] >= 32768 THEN (n1[2] - 65536) * 65536 + n1[1]
                               ELSE n1[2] * 65536 + n1[1]>>
                          \o SubSeq(out, pos + 1, Len(out)))

\* section 6.2: ok and the code points, or a failure (bad input, overflow)
Rfc_decode(inp) ==
    LET delims == {j \in 1..Len(inp) : inp[j] = 45}
        b == IF delims = {} THEN 0 ELSE (CHOOSE j \in delims : \A x \in delims : x <= j) - 1
    IN  IF \E j \in 1..b : inp[j] >= 128 THEN [ok |-> FALSE, cut |-> FALSE]
        ELSE Rfc_decode_main(inp, IF b > 0 THEN b + 1 ELSE 0, Rfc_Word(0),
                             Rfc_Word(128), 72, SubSeq(inp, 1, b))

\* the ASCII lower case of a code point
Lowercase(c) == IF c \in 65..90 THEN c + 32 ELSE c

(***************************************************************************)
(* C5.  The encoder agrees with the reference encoder: for every label of  *)
(* at most 63 code points with a code point >= 128, encode_part returns    *)
(* "xn--" followed by the RFC 3492 encoding of the label with its basic    *)
(* code points lower-cased.  The code breaks it: to_lower sets bit 0x20 of *)
(* every basic code point, so '_' is encoded as DEL.                       *)
(***************************************************************************)
C5_EncoderIsRfc ==
    \A k \in 1..Len(calls) :
        LET L == calls[k].arg
        IN  ( /\ calls[k].op = "encode_part"
              /\ HasExtended(L)
              /\ Len(L) <= 63 )
            => calls[k].result =
                   Return(<<120, 110, 45, 45>>
                              \o Rfc_encode([j \in 1..Len(L) |-> Lowercase(L[j])]))

\* C5 without the code points to_lower spoils: the encoder agrees with the
\* reference encoder on labels whose basic code points are letters or have
\* bit 0x20 set
C5_EncoderIsRfcOnLetters ==
    \A k \in 1..Len(calls) :
        LET L == calls[k].arg
        IN  ( /\ calls[k].op = "encode_part"
              /\ HasExtended(L)
              /\ Len(L) <= 63
              /\ \A j \in 1..Len(L) : L[j] < 128 => (HasBit32(L[j]) \/ L[j] \in 65..90) )
            => calls[k].result =
                   Return(<<120, 110, 45, 45>>
                              \o Rfc_encode([j \in 1..Len(L) |-> Lowercase(L[j])]))

(***************************************************************************)
(* C6.  The decoder agrees with the reference decoder: for every label of  *)
(* 1..63 characters that is the marker and an ASCII string s, decode_part  *)
(* returns the RFC 3492 decoding of s and fails when that fails.  Stated   *)
(* for s whose last '-', if it has one, is not its first character.  The   *)
(* code breaks it: it does not detect overflow, and "xn--99999999b" is      *)
(* decoded to a code point computed from a wrapped sum.                    *)
(***************************************************************************)
C6_DecoderIsRfc ==
    \A k \in 1..Len(calls) :
        LET A == calls[k].arg
            s == SubSeq(A, 5, Len(A))
            r == Rfc_decode(s)
        IN  ( /\ calls[k].op = "decode_part"
              /\ Len(A) \in 1..63
              /\ IsMarked(A)
              /\ \A j \in 1..Len(s) : s[j] < 128
              /\ \A j \in 1..Len(s) : s[j] = 45 => \E i \in 1..Len(s) : i # 1 /\ s[i] = 45 )
            => IF r.ok THEN calls[k].result = Return(r.value)
               ELSE calls[k].result.kind # "ok"

(***************************************************************************)
(* C7.  to_puny_code and from_puny_code work label by label: the output    *)
(* of a call that returns has as many '.'-separated segments as the input, *)
(* every segment of the output is encode_part (decode_part) of the segment *)
(* of the input at the same place, an empty segment stays empty, and the   *)
(* conversion of a + "." + b is that of a, a '.', and that of b.  The code *)
(* breaks it: a converted label can hold a '.', which the decoder makes    *)
(* of "xn--8x902716a" when n wraps and the encoder of U+000E by to_lower.  *)
(***************************************************************************)
Dots(s) == {k \in 1..Len(s) : s[k] = 46}

\* the i-th '.'-separated segment of s
Segment(s, i) ==
    LET before == {p \in Dots(s) : Cardinality({q \in Dots(s) : q <= p}) = i - 1}
        after == {p \in Dots(s) : Cardinality({q \in Dots(s) : q <= p}) = i}
        lo == IF before = {} THEN 0 ELSE CHOOSE p \in before : TRUE
        hi == IF after = {} THEN Len(s) + 1 ELSE CHOOSE p \in after : TRUE
    IN  SubSeq(s, lo + 1, hi - 1)

C7_LabelByLabel ==
    \A k \in 1..Len(calls) :
        LET a == calls[k].arg
            r == calls[k].result.value
            part(p) == IF calls[k].op = "to_puny_code" THEN encode_part(p)
                       ELSE decode_part(p)
            whole(p) == IF calls[k].op = "to_puny_code" THEN to_puny_code(p)
                        ELSE from_puny_code(p)
        IN  ( /\ calls[k].op \in {"to_puny_code", "from_puny_code"}
              /\ calls[k].result.kind = "ok" )
            => /\ Cardinality(Dots(r)) = Cardinality(Dots(a))
               /\ \A i \in 1..(Cardinality(Dots(a)) + 1) :
                      Segment(r, i) = IF Segment(a, i) = <<>> THEN <<>>
                                      ELSE part(Segment(a, i)).value
               /\ \A p \in Dots(a) :
                      r = whole(SubSeq(a, 1, p - 1)).value \o <<46>>
                              \o whole(SubSeq(a, p + 1, Len(a))).value

(***************************************************************************)
(* C8.  Length boundary as the specification states it: decode_part of a   *)
(* label that starts with "xn--" and whose length after the marker is      *)
(* outside 1..63 fails with LengthError.  It does not hold: the length     *)
(* is tested with the marker, and "xn--" alone returns an empty sequence.  *)
(***************************************************************************)
C8_LengthBoundaryAsStated ==
    \A k \in 1..Len(calls) :
        LET A == calls[k].arg
        IN  ( /\ calls[k].op = "decode_part"
              /\ StartsWith(A, PREFIX)
              /\ (Len(A) - Len(PREFIX)) \notin 1..63 )
            => calls[k].result = Throw("LengthError")

\* C8, amended: decode_part fails with LengthError exactly when the label,
\* its marker included, has fewer than 1 or more than 63 characters; the
\* marker alone returns an empty sequence
C8_LengthBoundary ==
    \A k \in 1..Len(calls) :
        LET A == calls[k].arg
        IN  calls[k].op = "decode_part"
            => /\ (calls[k].result = Throw("LengthError")) <=> (Len(A) \notin 1..63)
               /\ calls[k].result.kind = "LengthError"
                      => calls[k].result.value = <<>>
               /\ A = PREFIX => calls[k].result = Return(<<>>)

\* a label of the marker and 60 characters, 64 in all, has been refused
C8_Witness ==
    \E k \in 1..Len(calls) :
        /\ calls[k].op = "decode_part"
        /\ StartsWith(calls[k].arg, PREFIX)
        /\ Len(calls[k].arg) = 64
        /\ calls[k].result = Throw("LengthError")

(***************************************************************************)
(* C9.  Invalid digit: for every label of 1..63 characters that starts     *)
(* with the marker, when the text after the last '-' of the label without  *)
(* its marker (all of it when it has no '-') holds a character that is no  *)
(* letter and no digit, decode_part fails with InvalidCharacter and        *)
(* returns no code points.                                                 *)
(***************************************************************************)
IsDigitChar(c) == c \in (97..122) \cup (65..90) \cup (48..57)

\* the text after the last '-' of s, or s when it has none
DigitSegment(s) ==
    LET at == {k \in 1..Len(s) : s[k] = 45}
    IN  IF at = {} THEN s
        ELSE SubSeq(s, (CHOOSE k \in at : \A j \in at : j <= k) + 1, Len(s))

C9_InvalidDigit ==
    \A k \in 1..Len(calls) :
        LET A == calls[k].arg
            digits == DigitSegment(SubSeq(A, 5, Len(A)))
        IN  ( /\ calls[k].op = "decode_part"
              /\ Len(A) \in 1..63
              /\ IsMarked(A)
              /\ \E j \in 1..Len(digits) : ~IsDigitChar(digits[j]) )
            => calls[k].result = Throw("InvalidCharacter")

\* "xn--a!" has been refused: the '!' follows a complete integer
C9_Witness ==
    \E k \in 1..Len(calls) :
        /\ calls[k].op = "decode_part"
        /\ calls[k].arg = PREFIX \o <<97, 33>>
        /\ calls[k].result = Throw("InvalidCharacter")

(***************************************************************************)
(* C10.  Encoder overflow: whenever delta leaves the range of its 32 bits  *)
(* during encode_part, in the sum with (m - n) * (h + 1), in an increment  *)
(* of the scan or in the increment between two rounds, encode_part fails   *)
(* with Overflow.  The code breaks it: only the increments of the scan are *)
(* tested, and 3855 times 'a' before U+10FFFF is encoded from a wrapped    *)
(* sum.                                                                    *)
(***************************************************************************)
delta_overflows(inp) ==
    LET r == encode_run(inp)
    IN  r.wrapped \/ r.kind = "Overflow"

C10_OverflowReported ==
    \A k \in 1..Len(calls) :
        ( /\ calls[k].op = "encode_part"
          /\ delta_overflows(calls[k].arg) )
        => calls[k].result = Throw("Overflow")

(***************************************************************************)
(* C11.  Encoder output format: every character encode_part returns is     *)
(* below 128; for a label with a code point >= 128 the output is "xn--",   *)
(* the basic code points of the label in their order with the letters      *)
(* lower-cased, a '-' when there are basic code points, and a non-empty    *)
(* string of lowercase letters and digits; for a label without one the     *)
(* output has the length of the label.  The code breaks it in the basic    *)
(* code points: to_lower turns '_' into DEL.                               *)
(***************************************************************************)
Basic(L) == SelectSeq(L, LAMBDA c : c < 128)

\* R is "xn--", B, a '-' when B is not empty, and a non-empty string of
\* lowercase letters and digits
IsAce(R, B) ==
    LET head == <<120, 110, 45, 45>> \o B \o (IF B # <<>> THEN <<45>> ELSE <<>>)
    IN  /\ StartsWith(R, head)
        /\ Len(R) > Len(head)
        /\ \A j \in (Len(head) + 1)..Len(R) : R[j] \in (97..122) \cup (48..57)

C11_OutputFormat ==
    \A k \in 1..Len(calls) :
        LET L == calls[k].arg
            R == calls[k].result.value
            B == [j \in 1..Len(Basic(L)) |-> Lowercase(Basic(L)[j])]
        IN  ( /\ calls[k].op = "encode_part"
              /\ calls[k].result.kind = "ok" )
            => /\ \A j \in 1..Len(R) : R[j] \in 0..127
               /\ HasExtended(L) => IsAce(R, B)
               /\ ~HasExtended(L) => Len(R) = Len(L)

\* C11 without the code points to_lower spoils: the format holds for the
\* labels whose basic code points are letters or have bit 0x20 set
C11_OutputFormatOnLetters ==
    \A k \in 1..Len(calls) :
        LET L == calls[k].arg
            R == calls[k].result.value
            B == [j \in 1..Len(Basic(L)) |-> Lowercase(Basic(L)[j])]
        IN  ( /\ calls[k].op = "encode_part"
              /\ calls[k].result.kind = "ok"
              /\ \A j \in 1..Len(L) : L[j] < 128 => (HasBit32(L[j]) \/ L[j] \in 65..90) )
            => /\ \A j \in 1..Len(R) : R[j] \in 0..127
               /\ HasExtended(L) => IsAce(R, B)
               /\ ~HasExtended(L) => Len(R) = Len(L)

(***************************************************************************)
(* C12.  Basic code points are copied and lower-cased: the basic code      *)
(* points in the output of encode_part are those of the label, in their    *)
(* order, with each letter 'A'..'Z' replaced by its lowercase letter and   *)
(* every other one unchanged.  The code breaks it: to_lower is cp | 32     *)
(* for every code point, so "_" is returned as DEL.                        *)
(***************************************************************************)
C12_BasicLowered ==
    \A k \in 1..Len(calls) :
        LET L == calls[k].arg
            R == calls[k].result.value
            B == [j \in 1..Len(Basic(L)) |-> Lowercase(Basic(L)[j])]
            at == IF HasExtended(L) THEN 4 ELSE 0
        IN  ( /\ calls[k].op = "encode_part"
              /\ calls[k].result.kind = "ok" )
            => /\ Len(R) >= at + Len(B)
               /\ \A j \in 1..Len(B) : R[at + j] = B[j]

(***************************************************************************)
(* C13.  Decoding ignores the case of the marker and of the digits: for    *)
(* every label of 1..63 characters that starts with the marker in any      *)
(* case, changing the case of a letter of the marker or of a letter after  *)
(* the last '-' (one letter, or all of them to upper or to lower case)     *)
(* leaves the outcome of decode_part as it is, and the characters before   *)
(* the last '-' are returned as given, in their order.                     *)
(***************************************************************************)
FlipCase(c) ==
    IF c \in 65..90 THEN c + 32 ELSE IF c \in 97..122 THEN c - 32 ELSE c

Uppercase(c) == IF c \in 97..122 THEN c - 32 ELSE c

\* the position of the last '-' of A after its marker, or 4
LastDash(A) ==
    LET at == {j \in 5..Len(A) : A[j] = 45}
    IN  IF at = {} THEN 4 ELSE CHOOSE j \in at : \A i \in at : i <= j

\* the positions of the letters of the marker and of the digits of A
CasePositions(A) ==
    {j \in {1, 2} \cup ((LastDash(A) + 1)..Len(A)) : FlipCase(A[j]) # A[j]}

\* A with f applied to the characters at the positions P
MapAt(A, P, f(_)) == [j \in 1..Len(A) |-> IF j \in P THEN f(A[j]) ELSE A[j]]

RECURSIVE IsSubseq(_, _)
IsSubseq(a, b) ==
    IF a = <<>> THEN TRUE
    ELSE IF b = <<>> THEN FALSE
    ELSE IF Head(a) = Head(b) THEN IsSubseq(Tail(a), Tail(b))
    ELSE IsSubseq(a, Tail(b))

C13_CaseInsensitive ==
    \A k \in Latest :
        LET A == calls[k].arg
            literal == SubSeq(A, 5, LastDash(A) - 1)
        IN  ( /\ calls[k].op = "decode_part"
              /\ Len(A) \in 1..63
              /\ IsMarked(A) )
            => /\ \A j \in CasePositions(A) :
                      decode_part(MapAt(A, {j}, FlipCase)) = calls[k].result
               /\ decode_part(MapAt(A, CasePositions(A), Uppercase)) = calls[k].result
               /\ decode_part(MapAt(A, CasePositions(A), Lowercase)) = calls[k].result
               /\ calls[k].result.kind = "ok"
                      => IsSubseq(literal, calls[k].result.value)

\* "xn--A-A" has been decoded to U+0080 and the 'A' of its basic literal
C13_Witness ==
    \E k \in 1..Len(calls) :
        /\ calls[k].op = "decode_part"
        /\ calls[k].arg = <<120, 110, 45, 45, 65, 45, 65>>
        /\ calls[k].result = Return(<<128, 65>>)

(***************************************************************************)
(* C14.  No partial result on failure: when the conversion of a label of   *)
(* the name fails, to_puny_code (from_puny_code) fails with the failure of *)
(* the first such label from the left and returns no text.                 *)
(***************************************************************************)
C14_NoPartialResult ==
    \A k \in Latest :
        LET a == calls[k].arg
            part(p) == IF calls[k].op = "to_puny_code" THEN encode_part(p)
                       ELSE decode_part(p)
            failing == {i \in 1..(Cardinality(Dots(a)) + 1) :
                           /\ Segment(a, i) # <<>>
                           /\ part(Segment(a, i)).kind # "ok"}
            first == CHOOSE i \in failing : \A j \in failing : i <= j
        IN  ( /\ calls[k].op \in {"to_puny_code", "from_puny_code"}
              /\ failing # {} )
            => /\ calls[k].result.kind = part(Segment(a, first)).kind
               /\ calls[k].result.value = <<>>

\* from_puny_code("a.xn--!") has failed on its second label
C14_Witness ==
    \E k \in 1..Len(calls) :
        /\ calls[k].op = "from_puny_code"
        /\ calls[k].arg = <<97, 46, 120, 110, 45, 45, 33>>
        /\ calls[k].result = Throw("InvalidCharacter")

(***************************************************************************)
(* C15.  Extended code points are handled in increasing order: in          *)
(* encode_part each m taken is greater than every m taken before it and is *)
(* at least n when it is taken; in decode_part of a label of 1..63         *)
(* characters the n of an insertion is never below the n of the insertion  *)
(* before it.  The code breaks it in decode_part: n wraps, and             *)
(* "xn--a975540107f" inserts U+0080 and then 'A'.                          *)
(***************************************************************************)
C15_EncodeAscending ==
    \A k \in Latest :
        LET taken == encode_run(calls[k].arg).taken
        IN  calls[k].op = "encode_part"
            => /\ \A i \in 1..Len(taken) : taken[i].m >= taken[i].n
               /\ \A i \in 1..Len(taken) : \A j \in 1..Len(taken) :
                      i < j => taken[i].m < taken[j].m

C15_DecodeAscending ==
    \A k \in Latest :
        LET steps == decode_run(calls[k].arg).steps
        IN  calls[k].op = "decode_part"
            => \A i \in 1..(Len(steps) - 1) : ~WLess(steps[i + 1].n, steps[i].n)

C15_Ascending == C15_EncodeAscending /\ C15_DecodeAscending

(***************************************************************************)
(* The integer codec on its own: encode_int applied to a bias and a        *)
(* uint32_t, then the loop of decode_part that reads one integer applied   *)
(* to the digits encode_int returned, with the same bias                   *)
(***************************************************************************)
MaxBias == 60
MaxValue == 40

\* the biases up to MaxBias, and the largest adapt returns for a uint32_t and
\* for a size_t
CodecBiases == (0..MaxBias) \cup {72, 213, 429}

\* the values up to MaxValue, powers of 36 and of 10, and the ends of the
\* range of a uint32_t
CodecValues ==
    {ToWord(q, U32Limbs) : q \in (0..MaxValue) \cup {1295, 1296, 46656, 1113983, 999999999}}
        \cup {<<65535, 32767>>, <<0, 32768>>, <<65534, 65535>>, <<65535, 65535>>}

CodecInit ==
    /\ input \in CodecBiases \X CodecValues
    /\ calls = <<>>

EncodeInt ==
    /\ calls = <<>>
    /\ calls' = <<[op |-> "encode_int", arg |-> input,
                   result |-> Return(encode_int(input[1], input[2]))]>>
    /\ UNCHANGED input

DecodeInt ==
    /\ Len(calls) = 1
    /\ calls[1].op = "encode_int"
    /\ LET digits == calls[1].result.value
           r == decode_int(digits, input[1],
                    [b |-> 0, i |-> ToWord(0, SizeLimbs), w |-> ToWord(1, SizeLimbs),
                     k |-> BASE, wrapped |-> FALSE])
       IN  calls' = Append(calls,
                       [op |-> "decode_int", arg |-> digits,
                        result |-> IF r.thrown THEN Throw("InvalidCharacter")
                                   ELSE Return([i |-> r.i, b |-> r.b])])
    /\ UNCHANGED input

CodecNext ==
    \/ EncodeInt
    \/ DecodeInt

CodecSpec == CodecInit /\ [][CodecNext]_vars

(***************************************************************************)
(* C16.  The integer codec round-trips: for every bias and every uint32_t  *)
(* q, encode_int(bias, q) returns at least one digit, every digit is below *)
(* 36, every threshold is in 1..26, the last digit and no other is below   *)
(* the threshold of its place, the digits weighted by the products of      *)
(* BASE - t sum to q, and the decoding loop reads all the digits and       *)
(* returns q.                                                              *)
(***************************************************************************)
\* the sum of the digits of D from place j on, w the weight of place j
RECURSIVE CodecValue(_, _, _, _)
CodecValue(D, bias, j, w) ==
    IF j > Len(D) THEN ToWord(0, SizeLimbs)
    ELSE WAdd(WMul(w, Rfc_decode_digit(D[j])),
              CodecValue(D, bias, j + 1, WMul(w, 36 - Rfc_threshold(36 * j, bias))))

C16_CodecRoundTrip ==
    /\ \A k \in 1..Len(calls) :
           LET bias == input[1]
               D == calls[k].result.value
           IN  calls[k].op = "encode_int"
               => /\ calls[k].result.kind = "ok"
                  /\ Len(D) >= 1
                  /\ \A j \in 1..Len(D) :
                         /\ Rfc_decode_digit(D[j]) < 36
                         /\ Rfc_threshold(36 * j, bias) \in 1..26
                         /\ (Rfc_decode_digit(D[j]) < Rfc_threshold(36 * j, bias))
                                <=> (j = Len(D))
                  /\ CodecValue(D, bias, 1, ToWord(1, SizeLimbs)) = Resize(input[2], SizeLimbs)
    /\ \A k \in 1..Len(calls) :
           calls[k].op = "decode_int"
               => calls[k].result =
                      Return([i |-> Resize(input[2], SizeLimbs), b |-> Len(calls[k].arg)])

\* 2^32 - 1 went through encode_int and the decoding loop with the bias 72
C16_Witness ==
    /\ Len(calls) = 2
    /\ input = <<72, <<65535, 65535>>>>
    /\ calls[2].op = "decode_int"
    /\ Len(calls[2].arg) > 1
    /\ calls[2].result.kind = "ok"
    /\ calls[2].result.value.i = <<65535, 65535, 0, 0>>

(***************************************************************************)
(* C17.  Main loop of encode_part, for a label with a code point >= 128:   *)
(* at every test of h < len, h is the number of code points of the label   *)
(* below n, and the list of the values left is not empty when h < len, so  *)
(* that no value is taken from an empty list; a round raises h by the      *)
(* number of occurrences of its m; and a run that returns ends with        *)
(* h = len and the list empty, after as many rounds as the label has       *)
(* distinct code points >= 128 and one call of encode_int for each         *)
(* occurrence of one.                                                      *)
(***************************************************************************)
Count(L, c) == Cardinality({j \in 1..Len(L) : L[j] = c})

C17_LoopInvariant ==
    \A k \in Latest :
        LET L == calls[k].arg
            run == encode_run(L)
            heads == run.heads
            extended == {L[j] : j \in {i \in 1..Len(L) : L[i] >= 128}}
        IN  ( /\ calls[k].op = "encode_part"
              /\ HasExtended(L) )
            => /\ run.kind # "Undefined"
               /\ \A i \in 1..Len(heads) :
                      /\ heads[i].h = Cardinality({j \in 1..Len(L) : L[j] < heads[i].n})
                      /\ heads[i].h < Len(L) => heads[i].left > 0
               /\ \A i \in 1..(Len(heads) - 1) :
                      heads[i + 1].h = heads[i].h + Count(L, run.taken[i].m)
               /\ run.kind = "ok"
                      => /\ heads[Len(heads)].h = Len(L)
                         /\ heads[Len(heads)].left = 0
                         /\ Len(heads) = Cardinality(extended) + 1
                         /\ run.groups = Len(L) - Len(Basic(L))

\* U+00FC, U+0080, U+00FC has been encoded in two rounds and three integers
C17_Witness ==
    \E k \in 1..Len(calls) :
        /\ calls[k].op = "encode_part"
        /\ calls[k].arg = <<252, 128, 252>>
        /\ calls[k].result.kind = "ok"
        /\ Len(encode_run(calls[k].arg).heads) = 3
        /\ encode_run(calls[k].arg).groups = 3

(***************************************************************************)
(* C18.  Truncated digit segment: for every label of 1..63 characters that *)
(* starts with the marker and whose digits (the text after the last '-')   *)
(* end within an integer, decode_part fails and returns no code points,    *)
(* and it reads no element of the input after the one that follows the     *)
(* last character.  The digits end within an integer when the reference    *)
(* decoder runs out of input, and whenever the last of them is '0'..'9',   *)
(* which is below no threshold.                                            *)
(***************************************************************************)
EndsWithinInteger(s) ==
    LET digits == DigitSegment(s)
        literal == SubSeq(s, 1, Len(s) - Len(digits) - 1)
        r == Rfc_decode_main(digits, 0, Rfc_Word(0), Rfc_Word(128), 72, literal)
    IN  /\ digits # <<>>
        /\ \A j \in 1..Len(digits) : IsDigitChar(digits[j])
        /\ \/ digits[Len(digits)] \in 48..57
           \/ ~r.ok /\ r.cut

C18_Truncated ==
    \A k \in Latest :
        LET A == calls[k].arg
            s == SubSeq(A, 5, Len(A))
        IN  ( /\ calls[k].op = "decode_part"
              /\ Len(A) \in 1..63
              /\ IsMarked(A) )
            => /\ decode_run(A).b <= Len(s) + 1
               /\ EndsWithinInteger(s)
                      => /\ calls[k].result.kind \in ErrorKinds
                         /\ calls[k].result.value = <<>>
                         /\ decode_run(A).b = Len(s) + 1

\* "xn--a9" has been refused: the integer 0 is complete, the '9' is not
C18_Witness ==
    \E k \in 1..Len(calls) :
        /\ calls[k].op = "decode_part"
        /\ calls[k].arg = <<120, 110, 45, 45, 97, 57>>
        /\ EndsWithinInteger(<<97, 57>>)
        /\ calls[k].result = Throw("InvalidCharacter")

(***************************************************************************)
(* C19.  Decoder range safety: for every label of 1..63 characters on      *)
(* which decode_part returns, each code point inserted is in               *)
(* 128..0x10FFFF, each insertion is at a position from 0 to the length of  *)
(* the output, the output has one code point for each character of the     *)
(* basic literal and one for each integer, and no sum or product wraps.    *)
(* The code breaks it: nothing is tested, and "xn--99999999b" returns a    *)
(* code point above 0x10FFFF from a wrapped n.                             *)
(***************************************************************************)
C19_PositionsInRange ==
    \A k \in Latest :
        LET A == calls[k].arg
            run == decode_run(A)
            literal == SubSeq(A, 5, LastDash(A) - 1)
        IN  ( /\ calls[k].op = "decode_part"
              /\ Len(A) \in 1..63
              /\ IsMarked(A)
              /\ calls[k].result.kind = "ok" )
            => /\ \A i \in 1..Len(run.steps) : run.steps[i].pos \in 0..run.steps[i].len
               /\ Len(calls[k].result.value) = Len(literal) + Len(run.steps)

C19_RangeSafety ==
    /\ C19_PositionsInRange
    /\ \A k \in 1..Len(calls) :
           LET A == calls[k].arg
               run == decode_run(A)
           IN  ( /\ calls[k].op = "decode_part"
                 /\ Len(A) \in 1..63
                 /\ IsMarked(A)
                 /\ calls[k].result.kind = "ok" )
               => /\ \A i \in 1..Len(run.steps) :
                         /\ ~WLessNat(run.steps[i].n, 128)
                         /\ ~WGreaterNat(run.steps[i].n, 1114111)
                  /\ ~run.wrapped

====
